---- MODULE Spec2Model ----
(***************************************************************************)
(* Model of the authenticated request pipeline of kalshi_mcp.py:           *)
(* initialize(), _sign_request() and _request() with its wall-clock rate   *)
(* limiter and its recursive retry on status 429, and of the tool and      *)
(* resource functions that call it.                                        *)
(*                                                                         *)
(* Spec and ConcSpec are the pipeline under one and two callers, EnvSpec   *)
(* the pipeline under every configured base URL and a wall clock that can  *)
(* be set back, SignSpec the direct calls of _sign_request with its random *)
(* salt, ToolSpec the tool functions over the pipeline.                    *)
(*                                                                         *)
(* Time is counted in clock ticks; one millisecond is TicksPerMs ticks, so *)
(* that the float seconds of time.time() keep a sub-millisecond part and   *)
(* int(time.time() * 1000) is a real truncation.                           *)
(***************************************************************************)
EXTENDS Integers, Sequences, FiniteSets, TLC

\* ---------------------------------------------------------------- bounds
\* clock ticks per millisecond
TicksPerMs == 2
\* one caller: logical calls started, free clock advances, 429 answers given
MaxCalls == 2
MaxTicks == 1
MaxThrottles == 4
\* two concurrent callers: the same three budgets
ConcCalls == 2
ConcTicks == 1
ConcThrottles == 1
\* the pipeline under a configured base URL and a wall clock that can be
\* set back
EnvCalls == 2
EnvTicks == 1
EnvThrottles == 1
EnvSteps == 1
\* direct calls of _sign_request
MaxSigns == 2
\* calls of the tool and resource functions
ToolCalls == 1
\* the clock at startup, more than MIN_REQUEST_INTERVAL after the epoch that
\* last_request_time = 0.0 stands for
StartClock == 1001

\* ------------------------------------------------------ program constants
MIN_REQUEST_INTERVAL == 150 * TicksPerMs
MAX_RETRY == 3
BACKOFF_BASE_MS == 500
API_PREFIX == "/trade-api/v2"
API_BASE == "https://api.elections.kalshi.com/trade-api/v2"
API_KEY == "key-id"
TOO_MANY_REQUESTS == 429

None == "None"

\* ------------------------------------------------------------ input sets
\* the (method, endpoint) pairs the tool functions pass to _request
CallSites == { <<"GET", "/markets">>, <<"POST", "/portfolio/orders">> }

\* what the environment holds at startup: is KALSHI_API_KEY set, and what is
\* found at PRIVATE_KEY_PATH: no file, a file that is no PEM private key, an
\* RSA key, or a private key of another type (load_pem_private_key loads it)
KeyFiles == { "missing", "invalid", "pem", "ec_pem" }

\* answers of the transport: a response (status, body text) or a failure
Responses ==
    { [kind |-> "response", status |-> 200, text |-> "{\"markets\":[]}"],
      [kind |-> "response", status |-> 201, text |-> "{\"order\":{}}"],
      [kind |-> "response", status |-> 204, text |-> ""],
      [kind |-> "response", status |-> 404, text |-> "not found"],
      [kind |-> "response", status |-> 429, text |-> "too many requests"],
      [kind |-> "failure", status |-> 0, text |-> "ConnectError"],
      [kind |-> "failure", status |-> 0, text |-> "ReadTimeout"] }

\* values of KALSHI_API_BASE in the environment: unset (the default), the
\* demo exchange, the default with a trailing slash, a proxy with no path
ApiBases ==
    { "https://api.elections.kalshi.com/trade-api/v2",
      "https://demo-api.kalshi.co/trade-api/v2",
      "https://api.elections.kalshi.com/trade-api/v2/",
      "http://localhost:8080" }

\* the path component of a base URL
BasePath(base) ==
    CASE base = "https://api.elections.kalshi.com/trade-api/v2" -> "/trade-api/v2"
      [] base = "https://demo-api.kalshi.co/trade-api/v2" -> "/trade-api/v2"
      [] base = "https://api.elections.kalshi.com/trade-api/v2/" -> "/trade-api/v2/"
      [] OTHER -> ""

\* the random salts the PSS padding can draw for one signature
Salts == { 0, 1 }

\* the tool and resource functions that take no validated arguments
Tools ==
    { "search_markets", "get_market_details", "get_portfolio",
      "get_trending_markets", "get_series_markets", "get_balance_resource",
      "get_positions_resource" }

\* the ticker the host passes
Ticker == "KXFED"

\* the calls of _request a tool function makes, in order
ToolRequests(name) ==
    CASE name = "search_markets" -> << <<"GET", "/markets">> >>
      [] name = "get_market_details" ->
             << <<"GET", "/markets/" \o Ticker>>,
                <<"GET", "/markets/" \o Ticker \o "/orderbook">> >>
      [] name = "get_portfolio" ->
             << <<"GET", "/portfolio/balance">>,
                <<"GET", "/portfolio/positions">> >>
      [] name = "get_trending_markets" -> << <<"GET", "/markets">> >>
      [] name = "place_order" -> << <<"POST", "/portfolio/orders">> >>
      [] name = "get_series_markets" -> << <<"GET", "/markets">> >>
      [] name = "get_balance_resource" -> << <<"GET", "/portfolio/balance">> >>
      [] OTHER -> << <<"GET", "/portfolio/positions">> >>

\* the text each function puts before str(e) in its except clause
ErrorPrefix(name) ==
    CASE name = "search_markets" -> "Error searching markets: "
      [] name = "get_market_details" -> "Error fetching market details: "
      [] name = "get_portfolio" -> "Error fetching portfolio: "
      [] name = "get_trending_markets" -> "Error fetching trending markets: "
      [] name = "place_order" -> "Error placing order: "
      [] name = "get_series_markets" -> "Error fetching series markets: "
      [] name = "get_balance_resource" -> "Error fetching balance: "
      [] OTHER -> "Error fetching positions: "

\* an except clause that catches the errors of httpx only
ToolCatch_HttpOnly(name, outcome) ==
    IF outcome.exc \in { "HTTPStatusError", "ConnectError", "ReadTimeout" }
    THEN [kind |-> "str", text |-> ErrorPrefix(name) \o outcome.exc]
    ELSE [kind |-> "raise", text |-> outcome.exc]

\* except Exception as e: return f"Error ...: {str(e)}"
ToolCatch(name, outcome) ==
    [kind |-> "str", text |-> ErrorPrefix(name) \o outcome.exc]

\* the string a function returns from the decoded value of its last request
ToolFormat(name, value) == [kind |-> "str", text |-> name \o ": " \o value]

\* arguments of place_order: a value and whether it is an int
Sides == { "yes", "no", "maybe" }
Quantities ==
    { [type |-> "int", val |-> 0], [type |-> "int", val |-> 1],
      [type |-> "float", val |-> 1] }
Prices ==
    { [type |-> "int", val |-> 0], [type |-> "int", val |-> 1],
      [type |-> "int", val |-> 99], [type |-> "int", val |-> 100],
      [type |-> "float", val |-> 50] }

\* arguments of direct calls of _sign_request
SignMethods == { "GET", "POST" }
SignPaths == { "/trade-api/v2/markets", "/trade-api/v2/portfolio/orders" }
SignTimestamps == { 500, 501 }

\* backward steps of the wall clock (a correction of the system time)
StepBacks == { 1, MIN_REQUEST_INTERVAL }

\* free advances of the clock between two steps of the program
Jumps == { 1, MIN_REQUEST_INTERVAL \div 2, MIN_REQUEST_INTERVAL }

\* -------------------------------------------------------- pure functions
Pow2(n) == IF n = 0 THEN 1 ELSE IF n = 1 THEN 2 ELSE IF n = 2 THEN 4 ELSE 8

DigitChar(d) ==
    CASE d = 0 -> "0" [] d = 1 -> "1" [] d = 2 -> "2" [] d = 3 -> "3"
      [] d = 4 -> "4" [] d = 5 -> "5" [] d = 6 -> "6" [] d = 7 -> "7"
      [] d = 8 -> "8" [] d = 9 -> "9"

\* str(n) for a non-negative integer: its decimal digits
RECURSIVE Str(_)
Str(n) == IF n < 10 THEN DigitChar(n) ELSE Str(n \div 10) \o DigitChar(n % 10)

\* str.upper() on the method names in use
Upper(m) ==
    CASE m = "get" -> "GET" [] m = "post" -> "POST" [] OTHER -> m

\* int(time.time()) * 1000: the clock truncated to whole seconds
Millis_Seconds(t) == (t \div (1000 * TicksPerMs)) * 1000

\* int(time.time() * 1000): whole milliseconds of a clock reading, truncated
Millis(t) == t \div TicksPerMs

\* a backoff that starts at one second
Backoff_FromOne(retry) == Pow2(retry + 1) * BACKOFF_BASE_MS * TicksPerMs

\* a backoff that grows by half a second per retry
Backoff_Linear(retry) == (retry + 1) * BACKOFF_BASE_MS * TicksPerMs

\* backoff = (2 ** retry) * 0.5 seconds, in ticks
Backoff(retry) == Pow2(retry) * BACKOFF_BASE_MS * TicksPerMs

\* httpx.Response.is_success
IsSuccess(status) == status >= 200 /\ status <= 299

\* response.json(): the decoded value of a body text, or a decoding failure
Json(text) ==
    CASE text = "{\"markets\":[]}" -> [ok |-> TRUE, value |-> "markets=[]"]
      [] text = "{\"order\":{}}" -> [ok |-> TRUE, value |-> "order={}"]
      [] OTHER -> [ok |-> FALSE, value |-> None]

\* _load_private_key: the key a file loads to, None when loading raises
LoadPrivateKey(key_file) ==
    CASE key_file = "pem" -> "rsa-key"
      [] key_file = "ec_pem" -> "ec-key"
      [] OTHER -> None

\* private_key.sign(message, padding.PSS(...), hashes.SHA256()) is the RSA
\* signing call; a key of another type raises TypeError on these arguments
CanSign(key) == key = "rsa-key"

\* the size in bytes of a SHA-256 digest, the value padding.PSS.DIGEST_LENGTH
\* stands for when the digest is SHA-256
DIGEST_LENGTH == 32

\* the size in bytes of the modulus of the RSA key in the key file (2048 bits)
KEY_SIZE_BYTES == 256

\* padding.PSS.MAX_LENGTH: the longest salt the key and the digest allow
MaxSaltLength(key_bytes, digest_bytes) == key_bytes - digest_bytes - 2

\* _sign_request with salt_length=padding.PSS.MAX_LENGTH
SignRequest_MaxSalt(key, method, path, timestamp, salt) ==
    [key |-> key, message |-> Str(timestamp) \o method \o path,
     padding |-> "PSS", mgf |-> "MGF1-SHA256", algorithm |-> "SHA256",
     salt_length |-> MaxSaltLength(KEY_SIZE_BYTES, DIGEST_LENGTH),
     salt |-> salt]

\* _sign_request: the signature is determined by the key, the message
\* f"{timestamp}{method}{path}", the padding and digest parameters, and the
\* random salt the padding draws
SignRequest(key, method, path, timestamp, salt) ==
    [key |-> key, message |-> Str(timestamp) \o method \o path,
     padding |-> "PSS", mgf |-> "MGF1-SHA256", algorithm |-> "SHA256",
     salt_length |-> DIGEST_LENGTH, salt |-> salt]

\* headers whose timestamp comes from a later reading of the clock
Headers_Reread(signature, timestamp) ==
    [access_key |-> API_KEY, signature |-> signature,
     timestamp |-> Str(timestamp + 1), content_type |-> "application/json"]

\* the headers dict built by _request
Headers(signature, timestamp) ==
    [access_key |-> API_KEY, signature |-> signature,
     timestamp |-> Str(timestamp), content_type |-> "application/json"]

\* isinstance(v, int)
IsInt(v) == v.type = "int"

\* the text of a number in an f-string; the floats are n + 0.5
Repr(v) == IF IsInt(v) THEN Str(v.val) ELSE Str(v.val) \o ".5"

\* the validation of place_order without the check of price_cents
OrderError_NoPriceCheck(side, quantity, price_cents) ==
    IF side \notin { "yes", "no" }
    THEN "Error: side must be 'yes' or 'no', got '" \o side \o "'"
    ELSE IF ~IsInt(quantity) \/ quantity.val < 1
    THEN "Error: quantity must be positive integer, got " \o Repr(quantity)
    ELSE None

\* lines 294-299: the error string of the first check that fails, or None
OrderError(side, quantity, price_cents) ==
    IF side \notin { "yes", "no" }
    THEN "Error: side must be 'yes' or 'no', got '" \o side \o "'"
    ELSE IF ~IsInt(quantity) \/ quantity.val < 1
    THEN "Error: quantity must be positive integer, got " \o Repr(quantity)
    ELSE IF ~IsInt(price_cents) \/ price_cents.val < 1 \/ price_cents.val > 99
    THEN "Error: price_cents must be 1-99, got " \o Repr(price_cents)
    ELSE None

\* lines 302-313: the payload dict, with the price under the key of its side
OrderPayload(side, quantity, price_cents) ==
    IF side = "yes"
    THEN [ticker |-> Ticker, action |-> "buy", side |-> side,
          count |-> quantity.val, type |-> "limit",
          yes_price |-> price_cents.val]
    ELSE [ticker |-> Ticker, action |-> "buy", side |-> side,
          count |-> quantity.val, type |-> "limit",
          no_price |-> price_cents.val]

\* the retry decision taken whatever the transport gave
ShouldRetry_Always(r, retry) == retry < MAX_RETRY

\* the retry decision with the bound on retry off by one
ShouldRetry_OneMore(r, retry) ==
    r.kind = "response" /\ r.status = TOO_MANY_REQUESTS /\ retry <= MAX_RETRY

\* the retry decision taken on every error status
ShouldRetry_AnyError(r, retry) ==
    r.kind = "response" /\ r.status >= 400 /\ retry < MAX_RETRY

\* the retry decision taken on failures of the transport as well
ShouldRetry_OnFailure(r, retry) ==
    /\ r.kind = "failure" \/ r.status = TOO_MANY_REQUESTS
    /\ retry < MAX_RETRY

\* line 95: the retry decision of _request on what the transport gave
ShouldRetry(r, retry) ==
    r.kind = "response" /\ r.status = TOO_MANY_REQUESTS /\ retry < MAX_RETRY

\* the sleep computed without the part of the interval still to run
Wait_Short(elapsed) ==
    IF elapsed < MIN_REQUEST_INTERVAL
    THEN (MIN_REQUEST_INTERVAL - elapsed) \div 2 ELSE 0

\* lines 72-73: how long the rate limiter sleeps after reading elapsed
Wait(elapsed) ==
    IF elapsed < MIN_REQUEST_INTERVAL THEN MIN_REQUEST_INTERVAL - elapsed ELSE 0

NoResponse == [kind |-> None, status |-> 0, text |-> ""]

\* lines 101-108: what _request ends in once it does not retry. A failure of
\* the transport is the exception the transport raised, logged and raised
\* again; raise_for_status() raises HTTPStatusError holding the response
Outcome(r) ==
    IF r.kind = "failure"
    THEN [kind |-> "raise", exc |-> r.text, cause |-> r.text,
          status |-> 0, text |-> "", value |-> None]
    ELSE IF ~IsSuccess(r.status)
    THEN [kind |-> "raise", exc |-> "HTTPStatusError", cause |-> None,
          status |-> r.status, text |-> r.text, value |-> None]
    ELSE IF ~Json(r.text).ok
    THEN [kind |-> "raise", exc |-> "JSONDecodeError", cause |-> None,
          status |-> r.status, text |-> r.text, value |-> None]
    ELSE [kind |-> "return", exc |-> None, cause |-> None,
          status |-> r.status, text |-> r.text, value |-> Json(r.text).value]

NoOutcome ==
    [kind |-> None, exc |-> None, cause |-> None, status |-> 0, text |-> "",
     value |-> None]

\* ------------------------------------------------------------------ state
VARIABLES
    proc,               \* "startup", "running" (mcp.run() serves calls),
                        \* "imported" (a host serves the tools), "exited"
    private_key,        \* module global
    http_client,        \* module global
    last_request_time,  \* module global, a clock reading
    now,                \* the clock read by time.time()
    threads,            \* number of host threads that run tool calls
    frame,              \* per thread: the locals of its _request call
    sent,               \* per thread: the requests its current call dispatched
    events,             \* per thread: what its current call did, in order
    prev_request_time,  \* the value last_request_time had before its last write
    writes,             \* number of writes of last_request_time, counted to 2
    calls_left,         \* logical calls the callers may still start
    ticks_left,         \* free clock advances that may still happen
    throttles_left,     \* 429 answers the server may still give
    api_base,           \* module global API_BASE, read from the environment
    entropy,            \* the salts the random source can yield in this run
    tool,               \* per thread: the tool function it runs
    signed,             \* results of direct calls of _sign_request
    tools_left,         \* tool calls the host may still make
    steps_left,         \* backward steps the wall clock may still take
    signs_left          \* direct calls of _sign_request that may still happen

vars == << proc, private_key, http_client, last_request_time, now, threads,
           frame, sent, events, prev_request_time, writes, calls_left,
           ticks_left, throttles_left, api_base, entropy, tool, signed,
           tools_left, steps_left, signs_left >>

\* the state outside the request pipeline and its configuration
env == << api_base, entropy, tool, signed, tools_left, steps_left, signs_left >>

budget == << calls_left, ticks_left, throttles_left >>

Threads == 1 .. threads

IdleFrame ==
    [pc |-> "idle", method |-> None, endpoint |-> None, retry |-> 0,
     elapsed |-> 0, wake |-> 0, recorded |-> 0, timestamp |-> 0,
     path |-> None, url |-> None, headers |-> None, signature |-> None,
     json |-> None, response |-> NoResponse, outcome |-> NoOutcome]

\* no tool function is running
IdleTool ==
    [name |-> None, args |-> None, step |-> "idle", log |-> << >>,
     result |-> [kind |-> None, text |-> ""]]

InitEnv(n, calls, ticks, throttles, bases, salts, tools, steps, signs) ==
    /\ proc = "startup"
    /\ private_key = None
    /\ http_client = None
    /\ last_request_time = 0
    /\ now = StartClock
    /\ threads = n
    /\ frame = [c \in 1 .. n |-> IdleFrame]
    /\ sent = [c \in 1 .. n |-> << >>]
    /\ events = [c \in 1 .. n |-> << >>]
    /\ prev_request_time = 0
    /\ writes = 0
    /\ calls_left = calls
    /\ ticks_left = ticks
    /\ throttles_left = throttles
    /\ api_base \in bases
    /\ entropy = salts
    /\ tool = [c \in 1 .. n |-> IdleTool]
    /\ signed = { }
    /\ tools_left = tools
    /\ steps_left = steps
    /\ signs_left = signs

\* the request pipeline alone, with the default base URL. The control flow
\* of _request does not read the signature bytes: the pipeline draws the
\* salt from a set of one, SignSpec from Salts
InitWith(n, max_calls, max_ticks, max_throttles) ==
    InitEnv(n, max_calls, max_ticks, max_throttles, { API_BASE }, { 0 },
            0, 0, 0)

Init == InitWith(1, MaxCalls, MaxTicks, MaxThrottles)

ConcInit == InitWith(2, ConcCalls, ConcTicks, ConcThrottles)

SignInit ==
    InitEnv(1, 0, 0, 0, { API_BASE }, Salts, 0, 0, MaxSigns)

ToolInit ==
    InitEnv(1, 0, 0, MAX_RETRY + 1, { API_BASE }, { 0 }, ToolCalls, 0, 0)

EnvInit ==
    InitEnv(1, EnvCalls, EnvTicks, EnvThrottles, ApiBases, { 0 }, 0, EnvSteps,
            0)

\* a thread's call of _request has returned or raised
Done(c) == frame[c].pc = "done"

\* the 429 answers a thread's call of _request got
Throttled(c) ==
    SelectSeq(events[c], LAMBDA e : e.ev = "response" /\ e.arg = 429)

\* ------------------------------------------------------------- operations

\* initialize() with the client created before the key is loaded
initialize_ClientFirst(has_api_key, key_file) ==
    /\ proc = "startup"
    /\ IF has_api_key
       THEN /\ http_client' = "Client"
            /\ private_key' = LoadPrivateKey(key_file)
            /\ proc' = IF LoadPrivateKey(key_file) # None
                       THEN "running" ELSE "exited"
       ELSE /\ proc' = "exited"
            /\ UNCHANGED << private_key, http_client >>
    /\ UNCHANGED << last_request_time, now, threads, frame, sent, events,
                    prev_request_time, writes, budget >>
    /\ UNCHANGED env

\* initialize(): the key identifier must be set and the key file must load;
\* otherwise the exception ends the process before mcp.run()
initialize(has_api_key, key_file) ==
    /\ proc = "startup"
    /\ IF has_api_key /\ LoadPrivateKey(key_file) # None
       THEN /\ private_key' = LoadPrivateKey(key_file)
            /\ http_client' = "Client"
            /\ proc' = "running"
       ELSE /\ proc' = "exited"
            /\ UNCHANGED << private_key, http_client >>
    /\ UNCHANGED << last_request_time, now, threads, frame, sent, events,
                    prev_request_time, writes, budget >>
    /\ UNCHANGED env

\* a host imports the module and serves its tools: __name__ is not
\* "__main__", lines 415-417 do not run and initialize() is never called
Import ==
    /\ proc = "startup"
    /\ proc' = "imported"
    /\ UNCHANGED << private_key, http_client, last_request_time, now, threads,
                    frame, sent, events, prev_request_time, writes, budget >>
    /\ UNCHANGED env

\* the process serves tool calls
Serving == proc \in { "running", "imported" }

\* _request(method, endpoint, **kwargs) is entered with retry = 0
Enter(c, method, endpoint, body) ==
    /\ frame' = [frame EXCEPT ![c] =
                    [IdleFrame EXCEPT !.pc = "check", !.method = method,
                                      !.endpoint = endpoint, !.retry = 0,
                                      !.json = body]]
    /\ sent' = [sent EXCEPT ![c] = << >>]
    /\ events' = [events EXCEPT ![c] = << >>]

\* a tool function calls _request(method, endpoint): retry = 0
StartCall(c, method, endpoint) ==
    /\ Serving
    /\ frame[c].pc \in { "idle", "done" }
    /\ calls_left > 0
    /\ calls_left' = calls_left - 1
    /\ Enter(c, method, endpoint, None)
    /\ UNCHANGED << proc, private_key, http_client, last_request_time, now,
                    threads, prev_request_time, writes, ticks_left,
                    throttles_left >>
    /\ UNCHANGED env

\* lines 71-73: read the clock and last_request_time, start the sleep if the
\* interval has not elapsed
RateLimitCheck(c) ==
    /\ frame[c].pc = "check"
    /\ LET elapsed == now - last_request_time
       IN  /\ frame' = [frame EXCEPT
                  ![c].elapsed = elapsed,
                  ![c].wake = now + Wait(elapsed),
                  ![c].pc = IF Wait(elapsed) > 0 THEN "sleep" ELSE "update"]
           /\ events' = [events EXCEPT ![c] =
                  Append(@, [ev |-> "check", arg |-> Wait(elapsed)])]
    /\ UNCHANGED << proc, private_key, http_client, last_request_time, now,
                    threads, sent, prev_request_time, writes, budget >>
    /\ UNCHANGED env

\* line 73: time.sleep() returns once at least the requested time has passed
RateLimitWake(c) ==
    /\ frame[c].pc = "sleep"
    /\ now >= frame[c].wake
    /\ frame' = [frame EXCEPT ![c].pc = "update"]
    /\ UNCHANGED << proc, private_key, http_client, last_request_time, now,
                    threads, sent, events, prev_request_time, writes, budget >>
    /\ UNCHANGED env

\* line 74: last_request_time = time.time()
RateLimitUpdate(c) ==
    /\ frame[c].pc = "update"
    /\ last_request_time' = now
    /\ prev_request_time' = last_request_time
    /\ writes' = IF writes < 2 THEN writes + 1 ELSE writes
    /\ frame' = [frame EXCEPT ![c].recorded = now, ![c].pc = "auth"]
    /\ events' = [events EXCEPT ![c] = Append(@, [ev |-> "update", arg |-> now])]
    /\ UNCHANGED << proc, private_key, http_client, now, threads, sent, budget >>
    /\ UNCHANGED env

\* lines 77-89: timestamp, signed path, signature, headers, url
Authenticate(c) ==
    /\ frame[c].pc = "auth"
    /\ CanSign(private_key)
    /\ \E salt \in entropy :
       LET timestamp == Millis(now)
           path == API_PREFIX \o frame[c].endpoint
           signature == SignRequest(private_key, Upper(frame[c].method), path,
                                    timestamp, salt)
       IN  /\ frame' = [frame EXCEPT
                  ![c].timestamp = timestamp,
                  ![c].path = path,
                  ![c].signature = signature,
                  ![c].headers = Headers(signature, timestamp),
                  ![c].url = api_base \o frame[c].endpoint,
                  ![c].pc = "send"]
           /\ events' = [events EXCEPT ![c] =
                  Append(@, [ev |-> "sign", arg |-> timestamp])]
    /\ UNCHANGED << proc, private_key, http_client, last_request_time, now,
                    threads, sent, prev_request_time, writes, budget >>
    /\ UNCHANGED env

\* lines 77-79: the signing call raises (AttributeError when private_key is
\* None, TypeError when the key is no RSA key); the exception leaves _request
\* (the try block starts at line 91) after last_request_time was updated
SignFails(c) ==
    /\ frame[c].pc = "auth"
    /\ ~CanSign(private_key)
    /\ frame' = [frame EXCEPT
           ![c].timestamp = Millis(now),
           ![c].path = API_PREFIX \o frame[c].endpoint,
           ![c].outcome = [kind |-> "raise",
                           exc |-> IF private_key = None
                                   THEN "AttributeError" ELSE "TypeError",
                           cause |-> None, status |-> 0, text |-> "",
                           value |-> None],
           ![c].pc = "done"]
    /\ events' = [events EXCEPT ![c] =
           Append(@, [ev |-> "sign_error", arg |-> Millis(now)])]
    /\ UNCHANGED << proc, private_key, http_client, last_request_time, now,
                    threads, sent, prev_request_time, writes, budget >>
    /\ UNCHANGED env

\* line 92: http_client.request(method, url, headers=headers, ...) goes out
Dispatch(c) ==
    /\ frame[c].pc = "send"
    /\ sent' = [sent EXCEPT ![c] =
           Append(@, [method |-> frame[c].method, url |-> frame[c].url,
                      headers |-> frame[c].headers, at |-> now,
                      path |-> frame[c].path,
                      recorded |-> frame[c].recorded,
                      timestamp |-> frame[c].timestamp,
                      retry |-> frame[c].retry,
                      json |-> frame[c].json])]
    /\ events' = [events EXCEPT ![c] = Append(@, [ev |-> "dispatch", arg |-> now])]
    /\ frame' = [frame EXCEPT ![c].pc = "inflight"]
    /\ UNCHANGED << proc, private_key, http_client, last_request_time, now,
                    threads, prev_request_time, writes, budget >>
    /\ UNCHANGED env

\* lines 92-108: the transport answers (or fails); on 429 with retry < 3 the
\* backoff sleep starts, otherwise the call returns or raises
Receive(c, r) ==
    /\ frame[c].pc = "inflight"
    /\ IF r.kind = "response" /\ r.status = TOO_MANY_REQUESTS
       THEN throttles_left > 0 /\ throttles_left' = throttles_left - 1
       ELSE UNCHANGED throttles_left
    /\ IF ShouldRetry(r, frame[c].retry)
       THEN /\ frame' = [frame EXCEPT
                   ![c].response = r,
                   ![c].wake = now + Backoff(frame[c].retry),
                   ![c].pc = "backoff"]
            /\ events' = [events EXCEPT ![c] =
                   Append(Append(@, [ev |-> "response", arg |-> r.status]),
                          [ev |-> "backoff", arg |-> Backoff(frame[c].retry)])]
       ELSE /\ frame' = [frame EXCEPT ![c].response = r,
                                      ![c].outcome = Outcome(r),
                                      ![c].pc = "done"]
            /\ events' = [events EXCEPT ![c] =
                   Append(@, [ev |-> IF r.kind = "response"
                                     THEN "response" ELSE "failure",
                              arg |-> r.status])]
    /\ UNCHANGED << proc, private_key, http_client, last_request_time, now,
                    threads, sent, prev_request_time, writes, calls_left,
                    ticks_left >>
    /\ UNCHANGED env

\* a retry that resumes at the signing step, past the rate limiter
Retry_Bypass(c) ==
    /\ frame[c].pc = "backoff"
    /\ now >= frame[c].wake
    /\ frame' = [frame EXCEPT ![c].retry = @ + 1, ![c].pc = "auth"]
    /\ UNCHANGED << proc, private_key, http_client, last_request_time, now,
                    threads, sent, events, prev_request_time, writes, budget >>
    /\ UNCHANGED env

\* lines 98-99: the backoff sleep is over, _request calls itself with
\* retry + 1; the inner call's result or exception is the outer call's
Retry(c) ==
    /\ frame[c].pc = "backoff"
    /\ now >= frame[c].wake
    /\ frame' = [frame EXCEPT ![c].retry = @ + 1, ![c].pc = "check"]
    /\ UNCHANGED << proc, private_key, http_client, last_request_time, now,
                    threads, sent, events, prev_request_time, writes, budget >>
    /\ UNCHANGED env

\* -------------------------------------------------------- tool functions
\* a thread can start a tool function
CanCall(c) ==
    /\ Serving
    /\ tools_left > 0
    /\ tool[c].step \in { "idle", "returned" }
    /\ frame[c].pc \in { "idle", "done" }

\* the host calls a tool or resource function: it enters its try block and
\* makes its first call of _request
CallTool(c, name) ==
    /\ CanCall(c)
    /\ tools_left' = tools_left - 1
    /\ tool' = [tool EXCEPT ![c] =
                   [IdleTool EXCEPT !.name = name, !.step = "running"]]
    /\ Enter(c, ToolRequests(name)[1][1], ToolRequests(name)[1][2], None)
    /\ UNCHANGED << proc, private_key, http_client, last_request_time, now,
                    threads, prev_request_time, writes, budget >>
    /\ UNCHANGED << api_base, entropy, signed, steps_left, signs_left >>

\* the host calls place_order: lines 294-299 return an error string for
\* invalid arguments, otherwise the payload is built and posted
place_order(c, side, quantity, price_cents) ==
    /\ CanCall(c)
    /\ tools_left' = tools_left - 1
    /\ LET args == [side |-> side, quantity |-> quantity,
                    price_cents |-> price_cents]
           error == OrderError(side, quantity, price_cents)
       IN  IF error # None
           THEN /\ tool' = [tool EXCEPT ![c] =
                       [IdleTool EXCEPT !.name = "place_order", !.args = args,
                            !.step = "returned",
                            !.result = [kind |-> "str", text |-> error]]]
                /\ UNCHANGED << frame, sent, events >>
           ELSE /\ tool' = [tool EXCEPT ![c] =
                       [IdleTool EXCEPT !.name = "place_order", !.args = args,
                            !.step = "running"]]
                /\ Enter(c, "POST", "/portfolio/orders",
                         OrderPayload(side, quantity, price_cents))
    /\ UNCHANGED << proc, private_key, http_client, last_request_time, now,
                    threads, prev_request_time, writes, budget >>
    /\ UNCHANGED << api_base, entropy, signed, steps_left, signs_left >>

\* a call of _request made by a tool function has ended: an exception goes
\* to the except clause of the function, a value to its next statement (the
\* next call of _request, or the formatting of the result)
ToolReturn(c) ==
    /\ tool[c].step = "running"
    /\ Done(c)
    /\ LET name == tool[c].name
           out == frame[c].outcome
           log == Append(tool[c].log,
                         [endpoint |-> frame[c].endpoint, kind |-> out.kind,
                          dispatched |-> Len(sent[c]),
                          answered |-> Len(sent[c]) - Len(Throttled(c))])
       IN  IF out.kind = "raise"
           THEN /\ tool' = [tool EXCEPT ![c].log = log,
                                        ![c].step = "returned",
                                        ![c].result = ToolCatch(name, out)]
                /\ UNCHANGED << frame, sent, events >>
           ELSE IF Len(log) < Len(ToolRequests(name))
           THEN /\ tool' = [tool EXCEPT ![c].log = log]
                /\ Enter(c, ToolRequests(name)[Len(log) + 1][1],
                         ToolRequests(name)[Len(log) + 1][2], None)
           ELSE /\ tool' = [tool EXCEPT ![c].log = log,
                                        ![c].step = "returned",
                                        ![c].result =
                                            ToolFormat(name, out.value)]
                /\ UNCHANGED << frame, sent, events >>
    /\ UNCHANGED << proc, private_key, http_client, last_request_time, now,
                    threads, prev_request_time, writes, budget >>
    /\ UNCHANGED << api_base, entropy, signed, tools_left, steps_left,
                    signs_left >>

\* ------------------------------------------------------------- the clock
Sleeping(c) == frame[c].pc \in { "sleep", "backoff" } /\ now < frame[c].wake

\* time passes until a sleeping thread's wake-up time
AdvanceToWake(c) ==
    /\ Sleeping(c)
    /\ now' = frame[c].wake
    /\ UNCHANGED << proc, private_key, http_client, last_request_time, threads,
                    frame, sent, events, prev_request_time, writes, budget >>
    /\ UNCHANGED env

\* time passes between two steps of the program (the clock never goes back)
Tick(d) ==
    /\ Serving
    /\ ticks_left > 0
    /\ ticks_left' = ticks_left - 1
    /\ now' = now + d
    /\ UNCHANGED << proc, private_key, http_client, last_request_time, threads,
                    frame, sent, events, prev_request_time, writes,
                    calls_left, throttles_left >>
    /\ UNCHANGED env

\* the system time is set back by d: time.time() follows it, the sleeps in
\* progress (measured on the monotonic clock) keep their remaining length
ClockStepBack(d) ==
    /\ Serving
    /\ steps_left > 0
    /\ now >= d
    /\ steps_left' = steps_left - 1
    /\ now' = now - d
    /\ frame' = [c \in Threads |->
                    IF frame[c].pc \in { "sleep", "backoff" }
                    THEN [frame[c] EXCEPT !.wake = @ - d] ELSE frame[c]]
    /\ UNCHANGED << proc, private_key, http_client, last_request_time, threads,
                    sent, events, prev_request_time, writes, budget >>
    /\ UNCHANGED << api_base, entropy, tool, signed, tools_left, signs_left >>

\* _sign_request that leaves a trace of the call in last_request_time
Sign_Touching(method, path, timestamp) ==
    /\ Serving
    /\ signs_left > 0
    /\ signs_left' = signs_left - 1
    /\ last_request_time' = timestamp
    /\ \E salt \in entropy :
           signed' = signed \cup
               { [method |-> method, path |-> path, timestamp |-> timestamp,
                  kind |-> "return",
                  signature |-> SignRequest(private_key, method, path,
                                            timestamp, salt)] }
    /\ UNCHANGED << proc, private_key, http_client, now, threads, frame, sent,
                    events, prev_request_time, writes, budget >>
    /\ UNCHANGED << api_base, entropy, tool, tools_left, steps_left >>

\* _sign_request(method, path, timestamp) is called: it returns a signature
\* made with a salt the padding draws, or the signing call raises
Sign(method, path, timestamp) ==
    /\ Serving
    /\ signs_left > 0
    /\ signs_left' = signs_left - 1
    /\ IF CanSign(private_key)
       THEN \E salt \in entropy :
                signed' = signed \cup
                    { [method |-> method, path |-> path,
                       timestamp |-> timestamp, kind |-> "return",
                       signature |-> SignRequest(private_key, method, path,
                                                 timestamp, salt)] }
       ELSE signed' = signed \cup
                { [method |-> method, path |-> path, timestamp |-> timestamp,
                   kind |-> "raise", signature |-> None] }
    /\ UNCHANGED << proc, private_key, http_client, last_request_time, now,
                    threads, frame, sent, events, prev_request_time, writes,
                    budget >>
    /\ UNCHANGED << api_base, entropy, tool, tools_left, steps_left >>

Next ==
    \/ \E k \in BOOLEAN, f \in KeyFiles : initialize(k, f)
    \/ Import
    \/ \E c \in Threads, s \in CallSites : StartCall(c, s[1], s[2])
    \/ \E c \in Threads : RateLimitCheck(c)
    \/ \E c \in Threads : RateLimitWake(c)
    \/ \E c \in Threads : RateLimitUpdate(c)
    \/ \E c \in Threads : Authenticate(c)
    \/ \E c \in Threads : SignFails(c)
    \/ \E c \in Threads : Dispatch(c)
    \/ \E c \in Threads, r \in Responses : Receive(c, r)
    \/ \E c \in Threads : Retry(c)
    \/ \E c \in Threads : AdvanceToWake(c)
    \/ \E d \in Jumps : Tick(d)

Spec == Init /\ [][Next]_vars

ConcSpec == ConcInit /\ [][Next]_vars

\* the tool functions over the request pipeline; the clock advances while a
\* thread sleeps
ToolNext ==
    \/ \E k \in BOOLEAN, f \in KeyFiles : initialize(k, f)
    \/ Import
    \/ \E c \in Threads, name \in Tools : CallTool(c, name)
    \/ \E c \in Threads, side \in Sides, quantity \in Quantities,
          price_cents \in Prices : place_order(c, side, quantity, price_cents)
    \/ \E c \in Threads : ToolReturn(c)
    \/ \E c \in Threads : RateLimitCheck(c)
    \/ \E c \in Threads : RateLimitWake(c)
    \/ \E c \in Threads : RateLimitUpdate(c)
    \/ \E c \in Threads : Authenticate(c)
    \/ \E c \in Threads : SignFails(c)
    \/ \E c \in Threads : Dispatch(c)
    \/ \E c \in Threads, r \in Responses : Receive(c, r)
    \/ \E c \in Threads : Retry(c)
    \/ \E c \in Threads : AdvanceToWake(c)

ToolSpec == ToolInit /\ [][ToolNext]_vars

SignNext ==
    \/ \E k \in BOOLEAN, f \in KeyFiles : initialize(k, f)
    \/ Import
    \/ \E m \in SignMethods, p \in SignPaths, t \in SignTimestamps :
           Sign(m, p, t)

SignSpec == SignInit /\ [][SignNext]_vars

EnvNext ==
    \/ Next
    \/ \E d \in StepBacks : ClockStepBack(d)

EnvSpec == EnvInit /\ [][EnvNext]_vars

\* ------------------------------------------------------------ properties
\* the events of one kind in a thread's log, in order
EventsOf(c, kind) == SelectSeq(events[c], LAMBDA e : e.ev = kind)

\* C1: under concurrent callers no two writes of last_request_time, each
\* followed by a dispatch, are less than MIN_REQUEST_INTERVAL apart, because
\* each caller's wait is computed against the latest recorded timestamp.
C1_ConcurrentSpacing ==
    writes >= 2 =>
        last_request_time - prev_request_time >= MIN_REQUEST_INTERVAL

ThreadStep(c) ==
    \/ RateLimitCheck(c) \/ RateLimitWake(c) \/ RateLimitUpdate(c)
    \/ Authenticate(c) \/ SignFails(c) \/ Dispatch(c) \/ Retry(c)
    \/ AdvanceToWake(c)
    \/ \E r \in Responses : Receive(c, r)

Answers(c) ==
    SelectSeq(events[c], LAMBDA e : e.ev \in { "response", "failure" })

InCall(c) == frame[c].pc \notin { "idle", "done" }

\* C3: every logical call resolves: its attempt counter starts at 0, only
\* ever increases by 1, stays in 0..3 and belongs to the call alone; at most
\* 4 requests are dispatched; a call in progress always has a next step.
C3_CounterBounds ==
    \A c \in Threads :
        /\ frame[c].retry \in 0 .. 3
        /\ Len(sent[c]) <= 4
        /\ Len(sent[c]) \in { frame[c].retry, frame[c].retry + 1 }
        /\ Len(Answers(c)) <= Len(sent[c])
        /\ InCall(c) => ENABLED ThreadStep(c)

C3_CounterSteps ==
    \A c \in Threads :
        \/ frame'[c].retry = frame[c].retry
        \/ /\ frame'[c].retry = frame[c].retry + 1
           /\ frame[c].pc = "backoff"
           /\ frame[c].response.status = 429
        \/ /\ frame'[c].retry = 0
           /\ ~InCall(c)
           /\ frame'[c].pc = "check"

C3_BoundedRetry == []C3_CounterBounds /\ [][C3_CounterSteps]_vars

\* a call that used all its retries and dispatched 4 requests
C3_Witness ==
    /\ Done(1)
    /\ frame[1].retry = 3
    /\ Len(sent[1]) = 4

C5_ThrottledExhaustedDistinct ==
    \A c \in Threads :
        (Done(c) /\ Len(Throttled(c)) = 4)
        => /\ frame[c].outcome.kind = "raise"
           /\ \A r \in Responses :
                 (r.kind = "response" /\ r.status >= 400 /\ r.status # 429)
                 => frame[c].outcome.exc # Outcome(r).exc

\* C6: a non-success status other than 429 ends the call at once in the
\* status error holding that status code and body text; no backoff sleep
\* follows it and nothing more is dispatched.
C6_StatusErrorNoRetry ==
    \A c \in Threads :
        LET r == frame[c].response
        IN  (r.kind = "response" /\ r.status \notin 200 .. 299 /\ r.status # 429)
            => /\ Done(c)
               /\ frame[c].outcome.kind = "raise"
               /\ frame[c].outcome.exc = "HTTPStatusError"
               /\ frame[c].outcome.status = r.status
               /\ frame[c].outcome.text = r.text
               /\ events[c][Len(events[c])] = [ev |-> "response", arg |-> r.status]
               /\ Len(sent[c]) = Len(Answers(c))
               /\ Len(EventsOf(c, "backoff")) = Len(sent[c]) - 1

\* a 404 that arrives on the third attempt, after two retries
C6_Witness ==
    /\ Done(1)
    /\ frame[1].response.status = 404
    /\ frame[1].retry = 2

\* C7: a failure of the transport on any attempt ends the call in that
\* failure, raised with its cause; the call is not retried and dispatches
\* nothing more, whatever the attempt counter.
C7_TransportFailureNoRetry ==
    \A c \in Threads :
        LET r == frame[c].response
        IN  r.kind = "failure"
            => /\ Done(c)
               /\ frame[c].outcome.kind = "raise"
               /\ frame[c].outcome.exc = r.text
               /\ frame[c].outcome.cause = r.text
               /\ events[c][Len(events[c])].ev = "failure"
               /\ Len(sent[c]) = Len(Answers(c))
               /\ Len(sent[c]) = frame[c].retry + 1
               /\ Len(EventsOf(c, "backoff")) = frame[c].retry

\* a timeout on the third attempt, after two retries
C7_Witness ==
    /\ Done(1)
    /\ frame[1].response = [kind |-> "failure", status |-> 0, text |-> "ReadTimeout"]
    /\ frame[1].retry = 2

\* C8: in every dispatched request, first attempt or retry, the timestamp
\* header is the decimal string of the very timestamp the signature of that
\* request was computed over.
C8_HeaderTimestampIsSigned ==
    \A c \in Threads : \A i \in 1 .. Len(sent[c]) :
        LET q == sent[c][i]
        IN  /\ q.headers.timestamp = Str(q.timestamp)
            /\ q.headers.signature.message
                   = q.headers.timestamp \o Upper(q.method) \o q.path

\* a retry whose request carries another timestamp than the first attempt's
C8_Witness ==
    /\ Len(sent[1]) >= 2
    /\ sent[1][2].headers.timestamp # sent[1][1].headers.timestamp
    /\ sent[1][2].headers.signature # sent[1][1].headers.signature

\* the backoff of the attempt before attempt i, in milliseconds
BackoffMsBefore(i) == 500 * (2 ^ (i - 2))

\* C9 as stated: each attempt's millisecond timestamp is not earlier than the
\* last_request_time that attempt recorded, and not earlier than the previous
\* attempt's timestamp plus its backoff.
C9_TimestampNotBeforeRecorded ==
    \A c \in Threads : \A i \in 1 .. Len(sent[c]) :
        /\ sent[c][i].timestamp * TicksPerMs >= sent[c][i].recorded
        /\ i > 1 => sent[c][i].timestamp
                        >= sent[c][i - 1].timestamp + BackoffMsBefore(i)

\* C9 amended: each attempt takes its own timestamp from the clock between its
\* rate-limiter update and its dispatch; the millisecond timestamp is not
\* earlier than the recorded last_request_time truncated to whole
\* milliseconds (less than one millisecond before the recorded value), and
\* not earlier than the previous attempt's timestamp plus its backoff.
C9_TimestampPerAttempt ==
    \A c \in Threads : \A i \in 1 .. Len(sent[c]) :
        LET q == sent[c][i]
        IN  /\ q.timestamp * TicksPerMs > q.recorded - TicksPerMs
            /\ q.timestamp * TicksPerMs <= q.at
            /\ EventsOf(c, "sign")[i].arg = q.timestamp
            /\ EventsOf(c, "update")[i].arg = q.recorded
            /\ i > 1 => q.timestamp
                            >= sent[c][i - 1].timestamp + BackoffMsBefore(i)

\* a retry whose timestamp lies in the millisecond that its recorded
\* last_request_time falls into, below the recorded value
C9_Witness ==
    /\ Len(sent[1]) >= 2
    /\ sent[1][2].timestamp * TicksPerMs < sent[1][2].recorded
    /\ sent[1][2].timestamp > sent[1][1].timestamp + 500

\* C10: every dispatch, each retry after a 429 included, comes after its own
\* rate-limiter check and update of last_request_time and its own signing;
\* after a 429 the order is backoff sleep, check, update, signing, dispatch,
\* and the update comes no earlier than the backoff after the 429.
C10_AcquireBeforeEveryDispatch ==
    \A c \in Threads : \A i \in 1 .. Len(events[c]) :
        LET e == events[c]
        IN  e[i].ev = "dispatch"
            => /\ i >= 4
               /\ e[i - 1].ev = "sign"
               /\ e[i - 2].ev = "update"
               /\ e[i - 3].ev = "check"
               /\ e[i - 2].arg <= e[i].arg
               /\ i > 4 => /\ i >= 10
                           /\ e[i - 4].ev = "backoff"
                           /\ e[i - 5] = [ev |-> "response", arg |-> 429]
                           /\ e[i - 6].ev = "dispatch"
                           /\ e[i - 2].arg >= e[i - 6].arg + e[i - 4].arg

\* the third dispatch of a call, after two 429 answers
C10_Witness ==
    /\ Len(sent[1]) = 3
    /\ Len(EventsOf(1, "update")) = 3
    /\ frame[1].pc = "inflight"

\* the exception kinds of the code that stand for the error kinds of the
\* taxonomy: SigningError (the TypeError of the signing call), TransportError
\* (the exceptions of the transport), ApiStatusError and ThrottledExhausted
\* (HTTPStatusError)
TaxonomyKinds ==
    { "AttributeError", "TypeError", "ConnectError", "ReadTimeout",
      "HTTPStatusError" }

\* C11: every logical call ends either in the decoded JSON body of a success
\* response or in one of the error kinds of the taxonomy; there is no other
\* outcome.
C11_OutcomeTaxonomy ==
    \A c \in Threads :
        Done(c)
        => \/ /\ frame[c].outcome.kind = "return"
              /\ frame[c].response.status \in 200 .. 299
              /\ frame[c].outcome.value = Json(frame[c].response.text).value
           \/ /\ frame[c].outcome.kind = "raise"
              /\ frame[c].outcome.exc \in TaxonomyKinds

RECURSIVE SumArgs(_)
SumArgs(seq) == IF seq = << >> THEN 0 ELSE Head(seq).arg + SumArgs(Tail(seq))

\* C18: a call that exhausts its retries sleeps 0.5 s, 1 s and 2 s in
\* backoff and no more after the fourth 429; the backoff sleeps of any call
\* add up to at most 3500 ms.
C18_BackoffTotal ==
    \A c \in Threads :
        LET sleeps == EventsOf(c, "backoff")
        IN  /\ SumArgs(sleeps) <= 3500 * TicksPerMs
            /\ (Done(c) /\ Len(Throttled(c)) = 4) =>
                   /\ Len(sleeps) = 3
                   /\ sleeps[1].arg = 500 * TicksPerMs
                   /\ sleeps[2].arg = 1000 * TicksPerMs
                   /\ sleeps[3].arg = 2000 * TicksPerMs
                   /\ events[c][Len(events[c])] = [ev |-> "response", arg |-> 429]

\* four 429 answers: the call has ended after 3500 ms of backoff
C18_Witness ==
    /\ Done(1)
    /\ Len(Throttled(1)) = 4
    /\ SumArgs(EventsOf(1, "backoff")) = 3500 * TicksPerMs

\* C14: every dispatched request was signed over str(timestamp), the
\* upper-cased method and the signed path "/trade-api/v2" + endpoint, and
\* went to API_BASE + endpoint, whose path is the signed path.
C14_SignedPathIsRequestedPath ==
    \A c \in Threads :
        \A i \in 1 .. Len(sent[c]) :
            LET s == sent[c][i]
            IN  /\ s.path = API_PREFIX \o frame[c].endpoint
                /\ s.headers.signature.message =
                       Str(s.timestamp) \o Upper(s.method) \o s.path
                /\ s.url = api_base \o frame[c].endpoint
                /\ s.path = BasePath(api_base) \o frame[c].endpoint

\* two calls of _sign_request got the same arguments
SameInputs(a, b) ==
    a.method = b.method /\ a.path = b.path /\ a.timestamp = b.timestamp

Unsalted(a) ==
    IF a.kind = "return" THEN [a.signature EXCEPT !.salt = 0] ELSE None

C13_SameMessage ==
    \A a \in signed, b \in signed :
        SameInputs(a, b) => a.kind = b.kind /\ Unsalted(a) = Unsalted(b)

C13_SharedStateKept ==
    signed' # signed =>
        UNCHANGED << private_key, last_request_time, http_client >>

C15_MaxLengthSalt ==
    \A a \in signed :
        a.kind = "return" =>
            /\ a.signature.padding = "PSS"
            /\ a.signature.mgf = "MGF1-SHA256"
            /\ a.signature.algorithm = "SHA256"
            /\ a.signature.salt_length =
                   MaxSaltLength(KEY_SIZE_BYTES, DIGEST_LENGTH)

\* C15 (amended): every signature is RSA-PSS with MGF1 over SHA-256, digest
\* SHA-256, and a salt of the length of the digest (32 bytes), which is
\* shorter than the maximum length the key permits (222 bytes for a
\* 2048-bit key).
C15_DigestLengthSalt ==
    \A a \in signed :
        a.kind = "return" =>
            /\ a.signature.key = "rsa-key"
            /\ a.signature.padding = "PSS"
            /\ a.signature.mgf = "MGF1-SHA256"
            /\ a.signature.algorithm = "SHA256"
            /\ a.signature.salt_length = 32
            /\ a.signature.salt_length <
                   MaxSaltLength(KEY_SIZE_BYTES, DIGEST_LENGTH)

\* _sign_request returned a signature
C15_Witness ==
    \E a \in signed :
        /\ a.kind = "return"
        /\ a.signature.message = "500GET/trade-api/v2/markets"
        /\ a.signature.salt_length = DIGEST_LENGTH

\* C16: the rate-limiter sleep of an attempt is never longer than
\* MIN_REQUEST_INTERVAL.
C16_WaitAtMostInterval ==
    \A c \in Threads :
        /\ \A i \in 1 .. Len(events[c]) :
               events[c][i].ev = "check" =>
                   events[c][i].arg <= MIN_REQUEST_INTERVAL
        /\ frame[c].pc = "sleep" => frame[c].wake - now <= MIN_REQUEST_INTERVAL

\* C17: every tool and resource function returns a string whatever its call
\* of _request ends in, and a function that makes two requests makes no
\* second one once the first has failed.
C17_ToolsReturnStrings ==
    \A c \in Threads :
        LET t == tool[c]
        IN  /\ t.step = "returned" => t.result.kind = "str"
            /\ t.step # "idle" =>
                   /\ Len(t.log) <= Len(ToolRequests(t.name))
                   /\ \A i \in 1 .. Len(t.log) :
                          /\ t.log[i].endpoint = ToolRequests(t.name)[i][2]
                          /\ t.log[i].kind = "raise" =>
                                 /\ i = Len(t.log)
                                 /\ t.step = "returned"
                                 /\ t.result.text =
                                        ErrorPrefix(t.name) \o frame[c].outcome.exc
                   /\ (t.step = "running" /\ frame[c].pc # "idle") =>
                          frame[c].endpoint =
                              ToolRequests(t.name)[Len(t.log) + 1][2]

\* get_portfolio: the balance request was answered 429 four times, the
\* function returned its error string and made no positions request
C17_Witness ==
    /\ tool[1].name = "get_portfolio"
    /\ tool[1].step = "returned"
    /\ Len(tool[1].log) = 1
    /\ tool[1].log[1].kind = "raise"
    /\ tool[1].log[1].dispatched = 4
    /\ Len(Throttled(1)) = 4
    /\ tool[1].result = [kind |-> "str",
                         text |-> "Error fetching portfolio: HTTPStatusError"]

\* C19: within one logical call a further request goes out only after a 429:
\* every answer but the last is a 429, at most one answer is not a 429, and
\* a place_order call makes one call of _request, so at most one of its
\* order requests is answered with a status other than 429.
C19_FurtherRequestOnlyAfter429 ==
    \A c \in Threads :
        LET a == Answers(c)
        IN  /\ \A i \in 1 .. Len(a) - 1 :
                   a[i] = [ev |-> "response", arg |-> 429]
            /\ Len(sent[c]) \in { Len(a), Len(a) + 1 }
            /\ Done(c) => Len(sent[c]) = Len(a)
            /\ Len(a) - Len(Throttled(c)) <= 1
            /\ tool[c].name = "place_order" =>
                   /\ Len(tool[c].log) <= 1
                   /\ \A i \in 1 .. Len(tool[c].log) :
                          /\ tool[c].step = "returned"
                          /\ tool[c].log[i].answered <= 1

\* place_order: the order request was answered 429, sent again and answered
\* with another status
C19_Witness ==
    /\ tool[1].name = "place_order"
    /\ tool[1].step = "returned"
    /\ Len(tool[1].log) = 1
    /\ tool[1].log[1].dispatched = 2
    /\ tool[1].log[1].answered = 1

\* the arguments place_order accepts
ValidOrder(args) ==
    /\ args.side \in { "yes", "no" }
    /\ args.quantity.type = "int" /\ args.quantity.val >= 1
    /\ args.price_cents.type = "int"
    /\ args.price_cents.val >= 1 /\ args.price_cents.val <= 99

C20_OrdersWellFormed ==
    \A c \in Threads :
        /\ tool[c].name = "place_order" =>
               IF ValidOrder(tool[c].args)
               THEN tool[c].step = "running" \/ Len(tool[c].log) = 1
               ELSE /\ tool[c].step = "returned"
                    /\ tool[c].log = << >>
                    /\ tool[c].result.kind = "str"
        /\ \A i \in 1 .. Len(sent[c]) :
               LET q == sent[c][i]
               IN  /\ q.method # "POST" => q.json = None
                   /\ q.method = "POST" =>
                          /\ q.url = API_BASE \o "/portfolio/orders"
                          /\ (tool[c].name = "place_order"
                                 /\ ValidOrder(tool[c].args)) =>
                                 /\ q.json.side = tool[c].args.side
                                 /\ q.json.count = tool[c].args.quantity.val
                          /\ q.json.side \in { "yes", "no" }
                          /\ q.json.count >= 1
                          /\ q.json.action = "buy"
                          /\ q.json.type = "limit"
                          /\ q.json.side = "yes" =>
                                 /\ "no_price" \notin DOMAIN q.json
                                 /\ q.json.yes_price \in 1 .. 99
                          /\ q.json.side = "no" =>
                                 /\ "yes_price" \notin DOMAIN q.json
                                 /\ q.json.no_price \in 1 .. 99

C20_InvalidOrderNoEffect ==
    \A c \in Threads :
        (/\ tool'[c] # tool[c]
         /\ tool'[c].name = "place_order"
         /\ ~ValidOrder(tool'[c].args))
        => UNCHANGED << last_request_time, now, frame, sent, events >>

\* C20: place_order with invalid arguments returns an error string,
\* dispatches nothing and leaves last_request_time unchanged; every order it
\* dispatches has side yes or no, count >= 1, action buy, type limit and
\* the one price of its side, in 1..99.
C20_PlaceOrderValidation ==
    []C20_OrdersWellFormed /\ [][C20_InvalidOrderNoEffect]_vars

\* place_order with price_cents = 100 has returned its error string
C20_Witness ==
    /\ tool[1].name = "place_order"
    /\ tool[1].args.side = "yes"
    /\ tool[1].args.quantity = [type |-> "int", val |-> 1]
    /\ tool[1].args.price_cents = [type |-> "int", val |-> 100]
    /\ tool[1].step = "returned"
    /\ tool[1].result =
           [kind |-> "str", text |-> "Error: price_cents must be 1-99, got 100"]
    /\ sent[1] = << >>
    /\ last_request_time = 0

====
